---- MODULE Spec2Model ----
(***************************************************************************)
(* Verification model of AP-Bots:                                          *)
(*   - LLM token-budget manager (AP_Bots/models.py): get_avail_space,      *)
(*     trunc_chat_history, count_tokens, prepare_context;                  *)
(*   - Retriever (retriever.py): ranking cache and get_context.            *)
(* Texts are sequences of characters; the tokenizer is modelled as one     *)
(* token per character plus the special tokens the model family adds.      *)
(***************************************************************************)
EXTENDS Integers, Sequences, FiniteSets, TLC

VARIABLES
    \* ---- LLM (models.py) ----
    context_length,     \* self.context_length
    gen_max,            \* self.gen_params[self.name_token_var]
    special_tokens,     \* tokens the family's tokenizer adds to any text
    prompt,             \* argument prompt (a str)
    chat_history,       \* argument chat_history (list of turns, mutated in place)
    query,              \* argument query (<<>> stands for None / "")
    context,            \* argument context (list of documents)
    hist_dedic_arg,     \* argument hist_dedic_space, in tenths
    pc,                 \* position in the running call
    caller,             \* who called trunc_chat_history
    total_hist_tokens,  \* local of trunc_chat_history
    hist_dedic_space,   \* local of trunc_chat_history
    avail_space,        \* local of prepare_context
    result,             \* value returned / exception raised
    context0,           \* the context list as passed by the caller
    history0,           \* the chat history as passed by the caller
    drops,              \* iterations of the fitting loop that dropped
    pops,               \* turns removed by trunc_chat_history
    \* ---- Retriever (retriever.py) ----
    queries,            \* the dataset's queries, one per subject
    retr_texts,         \* retr_texts[i]: the texts of subject i's documents
    retr_gts,           \* retr_gts[i]: their ground truths
    gt_is_tuple,        \* isinstance(retr_gt_name, tuple)
    ties_low_first,     \* how the build's argsort orders equal scores
    cache_file,         \* the artifact {tag}_{model}.json
    nq,                 \* len(queries) of the running call
    k,                  \* argument k of the running call
    rpc,                \* position in get_context
    i,                  \* loop variable of get_context
    all_idxs,           \* local all_idxs
    all_examples,       \* local all_examples
    rresult,            \* value returned / exception raised by get_context
    reads,              \* reads of the artifact by the running call
    writes,             \* writes of the artifact by the running call
    rank_calls,         \* ranker invocations by the running call
    file0,              \* the artifact when the running call started
    full_hit,           \* the loaded cache covered every query position
    prev_hit,           \* the call before this one, if it had the same inputs
                        \* and was served from the cache alone
    flush_crash,        \* a process has died in the middle of save_file
    \* ---- get_context seen through the lengths of its lists ----
    n_queries,          \* len(queries)
    n_all_idxs,         \* len(all_idxs)
    has_file,           \* the artifact exists
    n_saved,            \* number of rankings the artifact holds
    qpos,               \* loop variable i
    fpc,                \* position in get_context
    unsaved,            \* rankings appended since the last flush
    n_loaded,           \* len(all_idxs) right after check_file
    \* ---- Retriever.semantic_consensus_weighting ----
    outputs,            \* argument outputs
    perm,               \* a reordering of outputs, for the second call
    scw_pc,             \* which of the two calls comes next
    scw_result,         \* what the call on outputs returned
    scw_perm_result,    \* what the call on the reordered outputs returned
    \* ---- Retriever.contrastive_retrieval ----
    has_gt_name,        \* retr_gt_name is truthy
    num_ce,             \* argument num_ce
    ce_k,               \* argument ce_k
    ce_pc,              \* position in contrastive_retrieval
    ce_result           \* value returned / exception raised

llm_vars == <<context_length, gen_max, special_tokens, prompt, chat_history,
              query, context, hist_dedic_arg, pc, caller, total_hist_tokens,
              hist_dedic_space, avail_space, result, context0, history0,
              drops, pops>>

retr_vars == <<queries, retr_texts, retr_gts, gt_is_tuple, ties_low_first,
               cache_file, nq, k, rpc, i, all_idxs,
               all_examples, rresult, reads, writes, rank_calls, file0,
               full_hit, prev_hit,
               flush_crash>>

flush_vars == <<n_queries, n_all_idxs, has_file, n_saved, qpos, fpc, unsaved,
                n_loaded>>

scw_vars == <<outputs, perm, scw_pc, scw_result, scw_perm_result>>

ce_vars == <<has_gt_name, num_ce, ce_k, ce_pc, ce_result>>

aux_vars == <<flush_vars, scw_vars, ce_vars>>

vars == <<llm_vars, retr_vars, aux_vars>>

(***************************************************************************)
(* Bounds of the model.                                                    *)
(***************************************************************************)
MaxTextLen == 2
MaxDocs == 2
MaxTurns == 2
MaxPrepTurns == 1
MinContextLength == 5
MaxContextLength == 8
MaxGen == 2

(***************************************************************************)
(* Helpers.                                                                *)
(***************************************************************************)
Min(a, b) == IF a < b THEN a ELSE b

Texts == UNION {[1..n -> {"a"}] : n \in 0..MaxTextLen}

SeqsUpTo(S, n) == UNION {[1..m -> S] : m \in 0..n}

Roles == <<"user", "assistant">>

\* a chat history whose turns carry the given contents
MkHistory(contents) ==
    [j \in 1..Len(contents) |->
        [role |-> Roles[((j - 1) % 2) + 1], content |-> contents[j]]]

\* "\n".join(docs)
RECURSIVE Join(_)
Join(docs) ==
    IF docs = <<>> THEN <<>>
    ELSE IF Len(docs) = 1 THEN docs[1]
    ELSE docs[1] \o <<"\n">> \o Join(Tail(docs))

Contents(turns) == [j \in 1..Len(turns) |-> turns[j].content]

RECURSIVE SumSeq(_)
SumSeq(s) == IF s = <<>> THEN 0 ELSE s[1] + SumSeq(Tail(s))

(***************************************************************************)
(* LLM.count_tokens                                                        *)
(***************************************************************************)
count_tokens(text) == special_tokens + Len(text)

\* the isinstance(prompt, list) branch: join the contents, then count
count_tokens_list(turns) == count_tokens(Join(Contents(turns)))

(***************************************************************************)
(* LLM.get_avail_space: None when the space is not positive                *)
(***************************************************************************)
\* variant: the tokens reserved for generation are not subtracted
get_avail_space_NoReserve(turns) ==
    LET a == context_length - count_tokens_list(turns)
    IN  IF a <= 0 THEN [none |-> TRUE, val |-> 0]
        ELSE [none |-> FALSE, val |-> a]

get_avail_space(turns) ==
    LET a == context_length - gen_max - count_tokens_list(turns)
    IN  IF a <= 0 THEN [none |-> TRUE, val |-> 0]
        ELSE [none |-> FALSE, val |-> a]

(***************************************************************************)
(* LLM.trunc_chat_history                                                  *)
(***************************************************************************)
HistShareTenths == 2

\* line 52: the budget is recomputed from the literal 0.2
HistDedicSpace(arg) == (context_length * HistShareTenths) \div 10

TurnTokens(turns) == [j \in 1..Len(turns) |-> count_tokens(turns[j].content)]

trunc_enter(who) ==
    /\ caller' = who
    /\ hist_dedic_space' = HistDedicSpace(hist_dedic_arg)
    /\ total_hist_tokens' = SumSeq(TurnTokens(chat_history))
    /\ pc' = "trunc"

\* direct call trunc_chat_history(chat_history, hist_dedic_arg)
TruncCall ==
    /\ pc = "call_trunc"
    /\ trunc_enter("user")
    /\ UNCHANGED <<context_length, gen_max, special_tokens, prompt,
                   chat_history, query, context, hist_dedic_arg, avail_space,
                   result, context0, history0, drops, pops>>
    /\ UNCHANGED <<retr_vars, aux_vars>>

\* variant: one token too many is subtracted per removed turn
TruncPopDelta_OneMore(removed) == count_tokens(removed.content) + 1

\* variant: the special tokens of the removed turn are not subtracted
TruncPopDelta_NoSpecial(removed) == Len(removed.content)

\* one iteration of the while loop: pop(0) and subtract its tokens
TruncPopDelta(removed) == count_tokens(removed.content)

\* variant: the newest turn is removed, as by pop()
Popped_Last(turns) ==
    [removed |-> turns[Len(turns)], rest |-> SubSeq(turns, 1, Len(turns) - 1)]

\* line 55: chat_history.pop(0)
Popped(turns) == [removed |-> Head(turns), rest |-> Tail(turns)]

TruncPop ==
    /\ pc = "trunc"
    /\ total_hist_tokens > hist_dedic_space
    /\ IF chat_history = <<>>
       THEN /\ pc' = "raised"
            /\ result' = [kind |-> "IndexError", info |-> <<>>]
            /\ UNCHANGED <<chat_history, total_hist_tokens, pops>>
       ELSE /\ chat_history' = Popped(chat_history).rest
            /\ total_hist_tokens' =
                   total_hist_tokens - TruncPopDelta(Popped(chat_history).removed)
            /\ pops' = pops + 1
            /\ UNCHANGED <<pc, result>>
    /\ UNCHANGED <<context_length, gen_max, special_tokens, prompt, query,
                   context, hist_dedic_arg, caller, hist_dedic_space,
                   avail_space, context0, history0, drops>>
    /\ UNCHANGED <<retr_vars, aux_vars>>

\* the loop test fails: return chat_history
TruncReturn ==
    /\ pc = "trunc"
    /\ ~(total_hist_tokens > hist_dedic_space)
    /\ IF caller = "prepare_context"
       THEN pc' = "budget" /\ UNCHANGED result
       ELSE pc' = "done" /\ result' = [kind |-> "history", info |-> <<>>]
    /\ UNCHANGED <<context_length, gen_max, special_tokens, prompt,
                   chat_history, query, context, hist_dedic_arg, caller,
                   total_hist_tokens, hist_dedic_space, avail_space,
                   context0, history0, drops, pops>>
    /\ UNCHANGED <<retr_vars, aux_vars>>

(***************************************************************************)
(* LLM.prepare_context                                                     *)
(***************************************************************************)
\* lines 75-76: truncate a non-empty history first
PrepareCall ==
    /\ pc = "call_prepare"
    /\ IF chat_history # <<>>
       THEN trunc_enter("prepare_context")
       ELSE /\ pc' = "budget"
            /\ UNCHANGED <<caller, hist_dedic_space, total_hist_tokens>>
    /\ UNCHANGED <<context_length, gen_max, special_tokens, prompt,
                   chat_history, query, context, hist_dedic_arg, avail_space,
                   result, context0, history0, drops, pops>>
    /\ UNCHANGED <<retr_vars, aux_vars>>

\* lines 77-78: a str prompt becomes a single user turn
NormPrompt(p) == <<[role |-> "user", content |-> p]>>

\* line 79
QueryLen == IF query # <<>> THEN count_tokens(query) ELSE 0

\* lines 80-81, 90-91
PrepareBudget ==
    /\ pc = "budget"
    /\ LET space == get_avail_space(NormPrompt(prompt) \o chat_history)
       IN  IF space.none
           THEN \* None - query_len
                /\ pc' = "raised"
                /\ result' = [kind |-> "TypeError", info |-> <<>>]
                /\ UNCHANGED avail_space
           ELSE /\ avail_space' = space.val - QueryLen
                /\ IF space.val - QueryLen # 0
                   THEN pc' = "fit" /\ UNCHANGED result
                   ELSE pc' = "done" /\ result' = [kind |-> "sentinel", info |-> <<>>]
    /\ UNCHANGED <<context_length, gen_max, special_tokens, prompt,
                   chat_history, query, context, hist_dedic_arg, caller,
                   total_hist_tokens, hist_dedic_space, context0, history0,
                   drops, pops>>
    /\ UNCHANGED <<retr_vars, aux_vars>>

\* variant: the first document is removed instead of the last
DropLast_First(docs) == IF docs = <<>> THEN <<>> ELSE Tail(docs)

\* line 86: context[:-1]
DropLast(docs) == IF docs = <<>> THEN <<>> ELSE SubSeq(docs, 1, Len(docs) - 1)

MaxDropCount == MaxDocs + 2

\* lines 83-86: the joined text is too long, remove one document
FitDrop ==
    /\ pc = "fit"
    /\ count_tokens(Join(context)) > avail_space
    /\ context' = DropLast(context)
    /\ drops' = Min(drops + 1, MaxDropCount)
    /\ UNCHANGED <<context_length, gen_max, special_tokens, prompt,
                   chat_history, query, hist_dedic_arg, pc, caller,
                   total_hist_tokens, hist_dedic_space, avail_space, result,
                   context0, history0, pops>>
    /\ UNCHANGED <<retr_vars, aux_vars>>

\* lines 87-89: the joined text fits, return it
FitReturn ==
    /\ pc = "fit"
    /\ ~(count_tokens(Join(context)) > avail_space)
    /\ pc' = "done"
    /\ result' = [kind |-> "string", info |-> Join(context)]
    /\ UNCHANGED <<context_length, gen_max, special_tokens, prompt,
                   chat_history, query, context, hist_dedic_arg, caller,
                   total_hist_tokens, hist_dedic_space, avail_space,
                   context0, history0, drops, pops>>
    /\ UNCHANGED <<retr_vars, aux_vars>>

(***************************************************************************)
(* Retriever: the cache artifact (json.dump / json.load)                   *)
(***************************************************************************)
Digits == <<"0", "1", "2", "3", "4", "5", "6", "7", "8", "9">>

IntToStr(n) == Digits[n + 1]

IsDigit(t) == \E d \in 1..Len(Digits) : Digits[d] = t

StrToInt(t) == (CHOOSE d \in 1..Len(Digits) : Digits[d] = t) - 1

\* json.dump of a list: "[" item "," item ... "]"
RECURSIVE DumpItems(_)
DumpItems(items) ==
    IF items = <<>> THEN <<>>
    ELSE IF Len(items) = 1 THEN items[1]
    ELSE items[1] \o <<",">> \o DumpItems(Tail(items))

DumpList(items) == <<"[">> \o DumpItems(items) \o <<"]">>

\* variant: a ranking is written in ascending order of similarity
DumpInts_Reversed(idxs) ==
    DumpList([j \in 1..Len(idxs) |-> <<IntToStr(idxs[Len(idxs) + 1 - j])>>])

\* json.dump of one ranking
DumpInts(idxs) == DumpList([j \in 1..Len(idxs) |-> <<IntToStr(idxs[j])>>])

\* json.dump(obj, f) for a list of lists of ints
JsonDump(obj) == DumpList([j \in 1..Len(obj) |-> DumpInts(obj[j])])

ParseFail == [ok |-> FALSE, val |-> <<>>, next |-> 0]

\* json.load: a list of depth 1 holds ints, a list of depth 2 holds lists
RECURSIVE ParseList(_, _, _)
RECURSIVE ParseElems(_, _, _, _)
ParseList(s, p, depth) ==
    IF p > Len(s) \/ p + 1 > Len(s) THEN ParseFail
    ELSE IF s[p] # "[" THEN ParseFail
    ELSE IF s[p + 1] = "]" THEN [ok |-> TRUE, val |-> <<>>, next |-> p + 2]
    ELSE ParseElems(s, p + 1, <<>>, depth)

ParseElems(s, p, acc, depth) ==
    LET e == IF depth = 1
             THEN IF p <= Len(s) /\ IsDigit(s[p])
                  THEN [ok |-> TRUE, val |-> StrToInt(s[p]), next |-> p + 1]
                  ELSE ParseFail
             ELSE ParseList(s, p, depth - 1)
    IN  IF ~e.ok THEN ParseFail
        ELSE IF e.next > Len(s) THEN ParseFail
        ELSE IF s[e.next] = ","
             THEN ParseElems(s, e.next + 1, Append(acc, e.val), depth)
        ELSE IF s[e.next] = "]"
             THEN [ok |-> TRUE, val |-> Append(acc, e.val), next |-> e.next + 1]
        ELSE ParseFail

JsonLoad(s) ==
    LET r == ParseList(s, 1, 2)
    IN  IF r.ok /\ r.next = Len(s) + 1 THEN r ELSE ParseFail

NoFile == [exists |-> FALSE, text |-> <<>>]

\* variant: an artifact that cannot be parsed is taken for an empty cache
check_file_Lenient(f) ==
    IF f.exists
    THEN LET r == JsonLoad(f.text)
         IN  [raised |-> FALSE, all_idxs |-> IF r.ok THEN r.val ELSE <<>>]
    ELSE [raised |-> FALSE, all_idxs |-> <<>>]

\* variant: the artifact is never read back, every call starts empty
check_file_Ignore(f) == [raised |-> FALSE, all_idxs |-> <<>>]

\* Retriever.check_file: the parsed artifact, [] when there is none
check_file(f) ==
    IF f.exists
    THEN LET r == JsonLoad(f.text)
         IN  [raised |-> ~r.ok, all_idxs |-> IF r.ok THEN r.val ELSE <<>>]
    ELSE [raised |-> FALSE, all_idxs |-> <<>>]

\* variant: only the newest ranking is written
save_file_Tail(obj) == [exists |-> TRUE, text |-> JsonDump(<<obj[Len(obj)]>>)]

\* Retriever.save_file: whole-file overwrite
save_file(obj) == [exists |-> TRUE, text |-> JsonDump(obj)]

\* Retriever.save_file cut short: open(path, "w") has emptied the file and
\* json.dump has written only the first part of the text
PartialWrites(obj) ==
    {[exists |-> TRUE, text |-> SubSeq(JsonDump(obj), 1, n)] :
        n \in 0..(Len(JsonDump(obj)) - 1)}

(***************************************************************************)
(* Retriever: ranking                                                      *)
(***************************************************************************)
\* similarity of exact-match embeddings
Similarity(q, d) == IF q = d THEN 1 ELSE 0

\* variant: the lower score comes first
Before_Ascending(sims, j, m) ==
    \/ sims[j] < sims[m]
    \/ sims[j] = sims[m] /\ (IF ties_low_first THEN j < m ELSE j > m)

\* position j comes before position m in np.argsort(similarities)[::-1]
Before(sims, j, m) ==
    \/ sims[j] > sims[m]
    \/ sims[j] = sims[m] /\ (IF ties_low_first THEN j < m ELSE j > m)

\* np.argsort(similarities)[::-1].tolist(), indices from 0
RECURSIVE ArgsortDesc(_, _)
ArgsortDesc(sims, rest) ==
    IF rest = {} THEN <<>>
    ELSE LET best == CHOOSE j \in rest :
                         \A m \in rest \ {j} : Before(sims, j, m)
         IN  <<best - 1>> \o ArgsortDesc(sims, rest \ {best})

\* retr_model.similarity on an empty pool is the backend's business: it may
\* reject the shapes or return an empty score list
RankerRaises(docs) == IF docs = <<>> THEN BOOLEAN ELSE {FALSE}

\* line 61: .numpy().squeeze().tolist() of the 1 x n score matrix: a list of
\* n scores, a bare float when n = 1
Squeeze(row) ==
    IF Len(row) = 1
    THEN [is_float |-> TRUE, scores |-> row]
    ELSE [is_float |-> FALSE, scores |-> row]

\* lines 63-64: a bare float is wrapped into a one-element list
AsScoreList(squeezed) ==
    IF squeezed.is_float THEN <<squeezed.scores[1]>> ELSE squeezed.scores

\* Retriever._neural_retrieval(query, docs) for a single query; np.argsort
\* of a bare float is [0]
neural_retrieval(q, docs) ==
    LET similarities == Squeeze([j \in 1..Len(docs) |-> Similarity(q, docs[j])])
    IN  [similarities |-> AsScoreList(similarities),
         sorted_idxs |-> ArgsortDesc(similarities.scores, 1..Len(docs))]

\* Retriever.get_retrieval_results
get_retrieval_results(q, docs) == neural_retrieval(q, docs)

(***************************************************************************)
(* Retriever.get_context                                                   *)
(***************************************************************************)
NewLine == "\n"

\* dataset.get_ratings(i): one rating per document of subject i
DocRatings(subj) ==
    [d \in 1..Len(retr_texts[subj + 1]) |-> IntToStr((subj + d) % 10)]

\* variant: one index more than k is taken
TopK_OneMore(sorted_idxs, kk) ==
    SubSeq(sorted_idxs, 1, Min(kk + 1, Len(sorted_idxs)))

\* sorted_idxs[:k]
TopK(sorted_idxs, kk) == SubSeq(sorted_idxs, 1, Min(kk, Len(sorted_idxs)))

\* lines 138-146: the exemplar of one selected document
Example(text, gt, rating) ==
    IF text # gt
    THEN IF gt_is_tuple
         THEN <<"Prompt:", NewLine, text, NewLine, "Gt:", NewLine, gt,
                NewLine, "Rating:", NewLine, rating>>
         ELSE <<"Prompt:", NewLine, text, NewLine, "Gt:", NewLine, gt, NewLine>>
    ELSE <<"Prompt:", NewLine, text>>

\* lines 129-147: the exemplars of query position subj (from 0)
Examples(subj, sorted_idxs, kk) ==
    LET top == TopK(sorted_idxs, kk)
        texts == [j \in 1..Len(top) |-> retr_texts[subj + 1][top[j] + 1]]
        gts == [j \in 1..Len(top) |-> retr_gts[subj + 1][top[j] + 1]]
        doc_ratings == [j \in 1..Len(top) |-> DocRatings(subj)[top[j] + 1]]
    IN  [j \in 1..Len(top) |-> Example(texts[j], gts[j], doc_ratings[j])]

FlushEvery == 500

\* variant: the flush after the last query is missing
FlushDue_NoFinal(pos, n) == (pos + 1) % FlushEvery = 0

\* line 125
FlushDue(pos, n) == ((pos + 1) % FlushEvery = 0) \/ (pos + 1 = n)

MaxK == 2
MaxQueries == 2
MaxPool == 2
MaxTotalDocs == 2

NoRResult == [kind |-> "none", out |-> <<>>]

NoRun == [nq |-> 0, k |-> 0, out |-> <<>>, queries |-> <<>>]

\* variant: the test for k == 0 is missing
EarlyReturn_Never(kk) == FALSE

\* line 108
EarlyReturn(kk) == kk = 0

\* the call that has just ended was served from the cache alone
EndedAsHit == rpc = "done" /\ k > 0 /\ full_hit /\ nq > 0

\* lines 106-109: k == 0 returns [""] * len(queries) at once
GetContextCall ==
    /\ rpc \in {"idle", "done", "raised", "crashed"}
    /\ \E n \in 0..Len(queries), kk \in 0..MaxK :
        /\ nq' = n
        /\ k' = kk
        /\ prev_hit' = IF EndedAsHit /\ n = nq /\ kk = k
                       THEN [nq |-> nq, k |-> k, out |-> rresult.out,
                             queries |-> queries]
                       ELSE NoRun
        /\ IF EarlyReturn(kk)
           THEN /\ rpc' = "done"
                /\ rresult' = [kind |-> "strings", out |-> [j \in 1..n |-> <<>>]]
           ELSE /\ rpc' = "check_file"
                /\ rresult' = NoRResult
    /\ i' = 0
    /\ all_idxs' = <<>>
    /\ all_examples' = <<>>
    /\ reads' = 0
    /\ writes' = 0
    /\ rank_calls' = 0
    /\ file0' = cache_file
    /\ full_hit' = FALSE
    /\ UNCHANGED <<queries, retr_texts, retr_gts, gt_is_tuple, ties_low_first,
                   cache_file, flush_crash>>
    /\ UNCHANGED <<llm_vars, aux_vars>>

\* line 111: all_idxs = self.check_file()
CheckFile ==
    /\ rpc = "check_file"
    /\ reads' = reads + 1
    /\ LET r == check_file(cache_file)
       IN  IF r.raised
           THEN \* the call ends before its queries are looked at
                /\ rpc' = "raised"
                /\ rresult' = [kind |-> "JSONDecodeError", out |-> <<>>]
                /\ nq' = 0
                /\ UNCHANGED <<all_idxs, full_hit>>
           ELSE /\ rpc' = "loop"
                /\ all_idxs' = r.all_idxs
                /\ full_hit' = (Len(r.all_idxs) >= nq)
                /\ UNCHANGED <<rresult, nq>>
    /\ UNCHANGED <<queries, retr_texts, retr_gts, gt_is_tuple, ties_low_first,
                   cache_file, k, i, all_examples,
                   writes, rank_calls, file0, prev_hit, flush_crash>>
    /\ UNCHANGED <<llm_vars, aux_vars>>

\* variant: the last position is never taken from the cache
IsCached_OffByOne(idxs, pos) == Len(idxs) > pos + 1

\* variant: the cache is never consulted
IsCached_Never(idxs, pos) == FALSE

\* line 119
IsCached(idxs, pos) == Len(idxs) > pos

\* variant: the ranking is computed afresh from the query text
CachedIdxs_Rerank(idxs, pos) ==
    get_retrieval_results(queries[pos + 1], retr_texts[pos + 1]).sorted_idxs

\* line 120: the cached ranking of position pos
CachedIdxs(idxs, pos) == idxs[pos + 1]

\* lines 115-147: one iteration of the loop over the queries
LoopIter ==
    /\ rpc = "loop"
    /\ i < nq
    /\ IF IsCached(all_idxs, i)
       THEN \* cache hit
            /\ all_examples' =
                   Append(all_examples, Examples(i, CachedIdxs(all_idxs, i), k))
            /\ i' = i + 1
            /\ UNCHANGED <<all_idxs, cache_file, writes, rank_calls, rpc, rresult>>
       ELSE \* cache miss: rank, append, flush when due
            LET r == get_retrieval_results(queries[i + 1], retr_texts[i + 1])
                new_idxs == Append(all_idxs, r.sorted_idxs)
            IN  /\ rank_calls' = rank_calls + 1
                /\ \E raised \in RankerRaises(retr_texts[i + 1]) :
                   IF raised
                   THEN /\ rpc' = "raised"
                        /\ rresult' = [kind |-> "RuntimeError", out |-> <<>>]
                        /\ UNCHANGED <<all_idxs, all_examples, i, cache_file, writes>>
                   ELSE /\ all_idxs' = new_idxs
                        /\ IF FlushDue(i, nq)
                           THEN /\ cache_file' = save_file(new_idxs)
                                /\ writes' = writes + 1
                           ELSE UNCHANGED <<cache_file, writes>>
                        /\ all_examples' =
                               Append(all_examples, Examples(i, r.sorted_idxs, k))
                        /\ i' = i + 1
                        /\ UNCHANGED <<rpc, rresult>>
    /\ UNCHANGED <<queries, retr_texts, retr_gts, gt_is_tuple, ties_low_first,
                   nq, k, reads, file0, full_hit, prev_hit, flush_crash>>
    /\ UNCHANGED <<llm_vars, aux_vars>>

\* what is left of a call whose process has died: the arguments, locals and
\* counters are gone; all_idxs is kept as the record of the in-memory
\* sequence at the moment of death
Dead ==
    /\ rpc' = "crashed"
    /\ nq' = 0
    /\ k' = 0
    /\ i' = 0
    /\ all_examples' = <<>>
    /\ reads' = 0
    /\ writes' = 0
    /\ rank_calls' = 0
    /\ file0' = NoFile
    /\ full_hit' = FALSE
    /\ prev_hit' = NoRun

\* the process dies between two steps of get_context, outside save_file:
\* the artifact stays as it is
Crash ==
    /\ rpc \in {"check_file", "loop"}
    /\ Dead
    /\ rresult' = [kind |-> IF rpc = "loop" THEN "crash" ELSE "crash_before_load",
                   out |-> <<>>]
    /\ UNCHANGED <<queries, retr_texts, retr_gts, gt_is_tuple, ties_low_first,
                   cache_file, all_idxs, flush_crash>>
    /\ UNCHANGED <<llm_vars, aux_vars>>

\* lines 121-126 and 41-45: the process dies inside save_file, after the
\* ranking of a miss was appended and the flush had begun
CrashInFlush ==
    /\ rpc = "loop"
    /\ i < nq
    /\ ~IsCached(all_idxs, i)
    /\ FlushDue(i, nq)
    /\ LET r == get_retrieval_results(queries[i + 1], retr_texts[i + 1])
           new_idxs == Append(all_idxs, r.sorted_idxs)
       IN  /\ all_idxs' = new_idxs
           /\ cache_file' \in PartialWrites(new_idxs)
    /\ Dead
    /\ rresult' = [kind |-> "crash_in_flush", out |-> <<>>]
    /\ flush_crash' = TRUE
    /\ UNCHANGED <<queries, retr_texts, retr_gts, gt_is_tuple, ties_low_first>>
    /\ UNCHANGED <<llm_vars, aux_vars>>

\* line 149: return all_examples
GetContextReturn ==
    /\ rpc = "loop"
    /\ i = nq
    /\ rpc' = "done"
    /\ rresult' = [kind |-> "lists", out |-> all_examples]
    /\ UNCHANGED <<queries, retr_texts, retr_gts, gt_is_tuple, ties_low_first,
                   cache_file, nq, k, i, all_idxs,
                   all_examples, reads, writes, rank_calls, file0, full_hit,
                   prev_hit, flush_crash>>
    /\ UNCHANGED <<llm_vars, aux_vars>>

(***************************************************************************)
(* Retriever.get_context, lengths only: the loop over the queries with     *)
(* every list replaced by its length, to run it past the flush period.     *)
(***************************************************************************)
MaxBatches == 2

\* numbers of queries around the multiples of the flush period
QueryCounts ==
    {n \in 0..(MaxBatches * FlushEvery + 1) :
        \E b \in 0..MaxBatches, d \in {-1, 0, 1} : n = b * FlushEvery + d}

\* lines 106-113: a call with k > 0 loads the artifact, [] when there is none
LenCall ==
    /\ fpc \in {"idle", "done"}
    /\ \E n \in QueryCounts : n_queries' = n
    /\ n_all_idxs' = IF has_file THEN n_saved ELSE 0
    /\ n_loaded' = IF has_file THEN n_saved ELSE 0
    /\ qpos' = 0
    /\ unsaved' = 0
    /\ fpc' = "loop"
    /\ UNCHANGED <<has_file, n_saved>>
    /\ UNCHANGED <<llm_vars, retr_vars, scw_vars, ce_vars>>

\* lines 115-127: one iteration, a hit when len(all_idxs) > i
LenLoopIter ==
    /\ fpc = "loop"
    /\ qpos < n_queries
    /\ IF n_all_idxs > qpos
       THEN UNCHANGED <<n_all_idxs, has_file, n_saved, unsaved>>
       ELSE /\ n_all_idxs' = n_all_idxs + 1
            /\ IF FlushDue(qpos, n_queries)
               THEN /\ has_file' = TRUE
                    /\ n_saved' = n_all_idxs + 1
                    /\ unsaved' = 0
               ELSE /\ unsaved' = unsaved + 1
                    /\ UNCHANGED <<has_file, n_saved>>
    /\ qpos' = qpos + 1
    /\ UNCHANGED <<n_queries, fpc, n_loaded>>
    /\ UNCHANGED <<llm_vars, retr_vars, scw_vars, ce_vars>>

\* line 149
LenReturn ==
    /\ fpc = "loop"
    /\ qpos = n_queries
    /\ fpc' = "done"
    /\ UNCHANGED <<n_queries, n_all_idxs, has_file, n_saved, qpos, unsaved,
                   n_loaded>>
    /\ UNCHANGED <<llm_vars, retr_vars, scw_vars, ce_vars>>

(***************************************************************************)
(* Retriever.semantic_consensus_weighting                                  *)
(***************************************************************************)
MaxOutputs == 3

OutputVals == {"x", "y", "z"}

\* line 72: retr_model.similarity(embeds, embeds)
SimilarityMatrix(embeds) ==
    [a \in 1..Len(embeds) |->
        [b \in 1..Len(embeds) |-> Similarity(embeds[a], embeds[b])]]

\* variant: a candidate is scored by its similarity to the first one alone
AggregatedScores_FirstColumn(matrix) ==
    [a \in 1..Len(matrix) |-> matrix[a][1]]

\* line 73: similarity_matrix.sum(axis=1)
AggregatedScores(matrix) == [a \in 1..Len(matrix) |-> SumSeq(matrix[a])]

\* np.argmax scans from the front and keeps the first maximum
RECURSIVE ArgMaxFrom(_, _, _)
ArgMaxFrom(scores, j, best) ==
    IF j > Len(scores) THEN best
    ELSE ArgMaxFrom(scores, j + 1,
                    IF scores[j] > scores[best] THEN j ELSE best)

\* variant: among equal scores the last one wins
ArgMax_Last(scores) ==
    (CHOOSE j \in 1..Len(scores) :
        \A m \in 1..Len(scores) :
            scores[j] >= scores[m] /\ (m > j => scores[m] < scores[j])) - 1

\* line 74: np.argmax(aggregated_scores), indices from 0
ArgMax(scores) == ArgMaxFrom(scores, 2, 1) - 1

NoScw == [kind |-> "none", text |-> "", index |-> 0]

\* lines 69-76; with no candidate there is no row to pick and outputs[0]
\* raises
semantic_consensus_weighting(outs) ==
    IF outs = <<>>
    THEN [kind |-> "IndexError", text |-> "", index |-> 0]
    ELSE LET similarity_matrix == SimilarityMatrix(outs)
             aggregated_scores == AggregatedScores(similarity_matrix)
             best_response_index == ArgMax(aggregated_scores)
         IN  [kind |-> "text", text |-> outs[best_response_index + 1],
              index |-> best_response_index]

\* the reorderings of a list of n candidates
Perms(n) == {p \in [1..n -> 1..n] : \A a, b \in 1..n : a # b => p[a] # p[b]}

Permuted(outs, p) == [j \in 1..Len(outs) |-> outs[p[j]]]

\* the call on the candidates as given
ScwCall ==
    /\ scw_pc = "call"
    /\ scw_result' = semantic_consensus_weighting(outputs)
    /\ scw_pc' = "call_permuted"
    /\ UNCHANGED <<outputs, perm, scw_perm_result>>
    /\ UNCHANGED <<llm_vars, retr_vars, flush_vars, ce_vars>>

\* the call on the same candidates in another order
ScwPermCall ==
    /\ scw_pc = "call_permuted"
    /\ scw_perm_result' = semantic_consensus_weighting(Permuted(outputs, perm))
    /\ scw_pc' = "done"
    /\ UNCHANGED <<outputs, perm, scw_result>>
    /\ UNCHANGED <<llm_vars, retr_vars, flush_vars, ce_vars>>

(***************************************************************************)
(* Retriever.contrastive_retrieval                                         *)
(***************************************************************************)
MaxCEQueries == 3

Reverse(s) == [j \in 1..Len(s) |-> s[Len(s) + 1 - j]]

\* np.argsort of one row of scores, indices from 0: ArgsortDesc is that
\* order read backwards
ArgsortAsc(sims) == Reverse(ArgsortDesc(sims, 1..Len(sims)))

\* Retriever._neural_retrieval(queries, docs) for a list of two or more
\* queries: similarities is a matrix, np.argsort sorts each row in ascending
\* order, and [::-1] reverses the order of the rows
neural_retrieval_rows(qs, docs) ==
    LET similarities ==
            [a \in 1..Len(qs) |->
                [b \in 1..Len(docs) |-> Similarity(qs[a], docs[b])]]
        row_order == [a \in 1..Len(qs) |-> ArgsortAsc(similarities[a])]
    IN  [similarities |-> similarities, sorted_idxs |-> Reverse(row_order)]

\* ce_retr[-num_ce:]
LastN(row, m) ==
    IF m = 0 THEN row
    ELSE SubSeq(row, Len(row) - Min(m, Len(row)) + 1, Len(row))

\* variant: ce_k is used as it is
MaxRange_NoClamp(cek, n_docs) == cek

\* line 90
MaxRange(cek, n_docs) == IF cek > n_docs THEN n_docs ELSE cek

\* lines 94-101: the exemplar of one document of an exemplar subject
CEExample(text, gt, rating) ==
    IF has_gt_name
    THEN IF gt_is_tuple
         THEN <<"Prompt:", NewLine, text, NewLine, "Gt:", NewLine, gt,
                NewLine, "Rating:", NewLine, rating>>
         ELSE <<"Prompt:", NewLine, text, NewLine, "Gt:", NewLine, gt>>
    ELSE <<"Prompt:", NewLine, text>>

\* lines 89-102: the exemplars of exemplar subject ce (from 0)
CEExamplesOf(ce, cek) ==
    LET max_range == MaxRange(cek, Len(retr_texts[ce + 1]))
    IN  [j \in 1..max_range |->
            CEExample(retr_texts[ce + 1][j], retr_gts[ce + 1][j],
                      DocRatings(ce)[j])]

\* retr_texts[ce][j] is read past the end of the subject's documents
ReadsPastEnd(ce, cek) ==
    MaxRange(cek, Len(retr_texts[ce + 1])) > Len(retr_texts[ce + 1])

NoCE == [kind |-> "none", out |-> <<>>, ce_idxs |-> <<>>]

\* lines 78-104.  With a single query the ranking is a flat list of ints and
\* slicing its element raises; ce_idxs records the subjects chosen per entry
contrastive_retrieval(qs, num, cek) ==
    IF Len(qs) = 1
    THEN [kind |-> "TypeError", out |-> <<>>, ce_idxs |-> <<>>]
    ELSE LET ce_retr_res == neural_retrieval_rows(qs, qs).sorted_idxs
             ce_idxs == [r \in 1..Len(ce_retr_res) |-> LastN(ce_retr_res[r], num)]
         IN  IF \E r \in 1..Len(ce_idxs) : \E c \in 1..Len(ce_idxs[r]) :
                    ReadsPastEnd(ce_idxs[r][c], cek)
             THEN [kind |-> "IndexError", out |-> <<>>, ce_idxs |-> <<>>]
             ELSE [kind |-> "lists",
                   out |-> [r \in 1..Len(ce_idxs) |->
                              [c \in 1..Len(ce_idxs[r]) |->
                                  CEExamplesOf(ce_idxs[r][c], cek)]],
                   ce_idxs |-> ce_idxs]

ContrastiveCall ==
    /\ ce_pc = "call"
    /\ ce_result' = contrastive_retrieval(queries, num_ce, ce_k)
    /\ ce_pc' = "done"
    /\ UNCHANGED <<has_gt_name, num_ce, ce_k>>
    /\ UNCHANGED <<llm_vars, retr_vars, flush_vars, scw_vars>>

(***************************************************************************)
(* Specifications.                                                         *)
(***************************************************************************)
ShareArgs == {1, 2, 5}

NoResult == [kind |-> "none", info |-> <<>>]

TextVals == {"x", "y"}

\* the retriever before any call, with an empty dataset
RetrieverUnused ==
    /\ queries = <<>>
    /\ retr_texts = <<>>
    /\ retr_gts = <<>>
    /\ gt_is_tuple = FALSE
    /\ ties_low_first = FALSE
    /\ cache_file = NoFile
    /\ nq = 0
    /\ k = 0
    /\ rpc = "idle"
    /\ i = 0
    /\ all_idxs = <<>>
    /\ all_examples = <<>>
    /\ rresult = NoRResult
    /\ reads = 0
    /\ writes = 0
    /\ rank_calls = 0
    /\ file0 = NoFile
    /\ full_hit = FALSE
    /\ prev_hit = NoRun
    /\ flush_crash = FALSE

\* the length view before any call
LenUnused ==
    /\ n_queries = 0
    /\ n_all_idxs = 0
    /\ has_file = FALSE
    /\ n_saved = 0
    /\ qpos = 0
    /\ fpc = "idle"
    /\ unsaved = 0
    /\ n_loaded = 0

\* no consensus call
ScwUnused ==
    /\ outputs = <<>>
    /\ perm = <<>>
    /\ scw_pc = "unused"
    /\ scw_result = NoScw
    /\ scw_perm_result = NoScw

\* no contrastive call
CEUnused ==
    /\ has_gt_name = TRUE
    /\ num_ce = 0
    /\ ce_k = 0
    /\ ce_pc = "unused"
    /\ ce_result = NoCE

AuxUnused == LenUnused /\ ScwUnused /\ CEUnused

\* the budget manager before any call, with empty arguments
LLMUnused ==
    /\ context_length = MinContextLength
    /\ gen_max = 1
    /\ special_tokens = 0
    /\ prompt = <<>>
    /\ chat_history = <<>>
    /\ query = <<>>
    /\ context = <<>>
    /\ hist_dedic_arg = HistShareTenths
    /\ pc = "unused"
    /\ caller = "none"
    /\ total_hist_tokens = 0
    /\ hist_dedic_space = 0
    /\ avail_space = 0
    /\ result = NoResult
    /\ context0 = <<>>
    /\ history0 = <<>>
    /\ drops = 0
    /\ pops = 0

InitLLM ==
    /\ context_length \in MinContextLength..MaxContextLength
    /\ gen_max \in {1, MaxGen}
    /\ special_tokens \in {0, 1}
    /\ \/ /\ pc = "call_prepare"
          /\ chat_history \in {MkHistory(c) : c \in SeqsUpTo(Texts, MaxPrepTurns)}
          /\ prompt \in Texts
          /\ query \in Texts
          /\ context \in SeqsUpTo(Texts, MaxDocs)
          /\ hist_dedic_arg = HistShareTenths
       \/ /\ pc = "call_trunc"
          /\ chat_history \in {MkHistory(c) : c \in SeqsUpTo(Texts, MaxTurns)}
          /\ prompt = <<>>
          /\ query = <<>>
          /\ context = <<>>
          /\ hist_dedic_arg \in ShareArgs
    /\ history0 = chat_history
    /\ context0 = context
    /\ caller = "none"
    /\ total_hist_tokens = 0
    /\ hist_dedic_space = 0
    /\ avail_space = 0
    /\ result = NoResult
    /\ drops = 0
    /\ pops = 0
    /\ RetrieverUnused
    /\ AuxUnused

NextLLM ==
    \/ TruncCall
    \/ TruncPop
    \/ TruncReturn
    \/ PrepareCall
    \/ PrepareBudget
    \/ FitDrop
    \/ FitReturn

SpecLLM == InitLLM /\ [][NextLLM]_vars

\* the document pools of MaxQueries subjects
Pools ==
    {t \in [1..MaxQueries -> SeqsUpTo(TextVals, MaxPool)] :
        SumSeq([s \in 1..MaxQueries |-> Len(t[s])]) <= MaxTotalDocs}

SameShape(g, t) == \A s \in 1..MaxQueries : Len(g[s]) = Len(t[s])

\* a dataset of MaxQueries subjects; the artifact does not exist yet.
\* Similarity only tests a document against its subject's query for equality,
\* so every query is "x" and the documents range over matches and mismatches.
InitRetr ==
    /\ queries \in [1..MaxQueries -> {"x"}]
    /\ retr_texts \in Pools
    /\ retr_gts \in {g \in Pools : SameShape(g, retr_texts)}
    /\ gt_is_tuple \in BOOLEAN
    /\ ties_low_first \in BOOLEAN
    /\ cache_file = NoFile
    /\ nq = 0
    /\ k = 0
    /\ rpc = "idle"
    /\ i = 0
    /\ all_idxs = <<>>
    /\ all_examples = <<>>
    /\ rresult = NoRResult
    /\ reads = 0
    /\ writes = 0
    /\ rank_calls = 0
    /\ file0 = NoFile
    /\ full_hit = FALSE
    /\ prev_hit = NoRun
    /\ flush_crash = FALSE
    /\ LLMUnused
    /\ AuxUnused

NextRetr ==
    \/ GetContextCall
    \/ CheckFile
    \/ LoopIter
    \/ Crash
    \/ CrashInFlush
    \/ GetContextReturn

SpecRetr == InitRetr /\ [][NextRetr]_vars

\* between two calls the caller replaces the query strings of the subjects
\* by another text; the documents and the artifact stay
NewQueries ==
    /\ rpc = "done"
    /\ queries' \in {[j \in 1..Len(queries) |-> t] : t \in TextVals} \ {queries}
    /\ UNCHANGED <<retr_texts, retr_gts, gt_is_tuple, ties_low_first,
                   cache_file, nq, k, rpc, i, all_idxs,
                   all_examples, rresult, reads, writes, rank_calls, file0,
                   full_hit, prev_hit, flush_crash>>
    /\ UNCHANGED <<llm_vars, aux_vars>>

\* the rankings of every subject under the queries at hand
FullCache ==
    [j \in 1..Len(queries) |->
        get_retrieval_results(queries[j], retr_texts[j]).sorted_idxs]

\* the dataset of InitRetr with the artifact an earlier complete run over
\* all its queries has written
InitHit ==
    /\ queries \in [1..MaxQueries -> {"x"}]
    /\ retr_texts \in Pools
    /\ retr_gts \in {g \in Pools : SameShape(g, retr_texts)}
    /\ gt_is_tuple \in BOOLEAN
    /\ ties_low_first \in BOOLEAN
    /\ cache_file = save_file(FullCache)
    /\ nq = 0
    /\ k = 0
    /\ rpc = "idle"
    /\ i = 0
    /\ all_idxs = <<>>
    /\ all_examples = <<>>
    /\ rresult = NoRResult
    /\ reads = 0
    /\ writes = 0
    /\ rank_calls = 0
    /\ file0 = NoFile
    /\ full_hit = FALSE
    /\ prev_hit = NoRun
    /\ flush_crash = FALSE
    /\ LLMUnused
    /\ AuxUnused

NextHit ==
    \/ GetContextCall
    \/ CheckFile
    \/ LoopIter
    \/ NewQueries
    \/ GetContextReturn

SpecHit == InitHit /\ [][NextHit]_vars

InitLen == LenUnused /\ ScwUnused /\ CEUnused /\ LLMUnused /\ RetrieverUnused

NextLen ==
    \/ LenCall
    \/ LenLoopIter
    \/ LenReturn

SpecLen == InitLen /\ [][NextLen]_vars

InitScw ==
    /\ outputs \in SeqsUpTo(OutputVals, MaxOutputs)
    /\ perm \in Perms(Len(outputs))
    /\ scw_pc = "call"
    /\ scw_result = NoScw
    /\ scw_perm_result = NoScw
    /\ LenUnused
    /\ CEUnused
    /\ LLMUnused
    /\ RetrieverUnused

NextScw ==
    \/ ScwCall
    \/ ScwPermCall

SpecScw == InitScw /\ [][NextScw]_vars

\* the document pools of n subjects
CEPools(n) ==
    {t \in [1..n -> SeqsUpTo(TextVals, MaxPool)] :
        SumSeq([s \in 1..n |-> Len(t[s])]) <= MaxTotalDocs}

\* a dataset of 1..MaxCEQueries subjects whose queries differ or coincide;
\* the ground truth of a subject's d-th document is the digit d
InitCE ==
    /\ \E n \in 1..MaxCEQueries :
          /\ queries \in [1..n -> TextVals]
          /\ retr_texts \in CEPools(n)
          /\ num_ce \in 1..n
    /\ retr_gts = [s \in 1..Len(retr_texts) |->
                      [d \in 1..Len(retr_texts[s]) |-> IntToStr(d)]]
    /\ has_gt_name \in BOOLEAN
    /\ gt_is_tuple \in (IF has_gt_name THEN BOOLEAN ELSE {FALSE})
    /\ ties_low_first \in BOOLEAN
    /\ ce_k \in 0..(MaxPool + 1)
    /\ ce_pc = "call"
    /\ ce_result = NoCE
    /\ cache_file = NoFile
    /\ nq = 0
    /\ k = 0
    /\ rpc = "idle"
    /\ i = 0
    /\ all_idxs = <<>>
    /\ all_examples = <<>>
    /\ rresult = NoRResult
    /\ reads = 0
    /\ writes = 0
    /\ rank_calls = 0
    /\ file0 = NoFile
    /\ full_hit = FALSE
    /\ prev_hit = NoRun
    /\ flush_crash = FALSE
    /\ LenUnused
    /\ ScwUnused
    /\ LLMUnused

NextCE == ContrastiveCall

SpecCE == InitCE /\ [][NextCE]_vars

(***************************************************************************)
(* Properties of the token-budget manager.                                 *)
(***************************************************************************)
ReturnedString == pc = "done" /\ result.kind = "string"

\* prepare_context has got past the budget computation
PastBudget == pc \in {"fit", "raised"} \/ (pc = "done" /\ result.kind # "history")

\* trunc_chat_history has just returned to its caller
TruncReturned ==
    \/ pc = "done" /\ result.kind = "history"
    \/ pc = "budget" /\ caller = "prepare_context"

\* contextLength - reservedGenerationTokens - tokens(prompt + history) - tokens(query)
SpaceLeft ==
    context_length - gen_max
        - count_tokens_list(NormPrompt(prompt) \o chat_history) - QueryLen

Prefix(docs, n) == SubSeq(docs, 1, n)

Fits(docs) == count_tokens(Join(docs)) <= avail_space

CeilShare == (context_length * HistShareTenths + 9) \div 10

\* C1: a context string returned by prepare_context has at most
\* contextLength - reservedGenerationTokens tokens.
C1_ReturnedWithinBudget ==
    ReturnedString => count_tokens(result.info) <= context_length - gen_max

C1_Witness ==
    /\ ReturnedString
    /\ drops > 0
    /\ result.info # <<>>
    /\ QueryLen > 0

\* C2: whenever the space left after prompt, truncated history and query is
\* zero or negative, prepare_context ends by returning the sentinel -1.
C2_ExhaustionReturnsSentinel ==
    (PastBudget /\ SpaceLeft <= 0) => (pc = "done" /\ result.kind = "sentinel")

\* C3: the fitting loop of prepare_context performs at most len(context)
\* drops, so prepare_context never loops forever.
C3_AtMostLenDrops == drops <= Len(context0)

\* C4: the returned string is the newline join of the longest prefix of the
\* input context list whose join fits the available space.
C4_LongestFittingPrefix ==
    ReturnedString =>
        \E n \in 0..Len(context0) :
            /\ context = Prefix(context0, n)
            /\ result.info = Join(Prefix(context0, n))
            /\ Fits(Prefix(context0, n))
            /\ \A m \in (n + 1)..Len(context0) : ~Fits(Prefix(context0, m))

C4_Witness ==
    /\ ReturnedString
    /\ drops > 0
    /\ context # <<>>
    /\ Len(context0) = MaxDocs

\* C5 (as claimed): after trunc_chat_history the history is empty or
\* count_tokens of the remaining history is at most ceil(contextLength * 0.2).
C5_JoinedCountWithinShare ==
    TruncReturned =>
        (chat_history = <<>> \/ count_tokens_list(chat_history) <= CeilShare)

\* C5 (amended): after trunc_chat_history the history is empty or the sum of
\* the token counts of the remaining turns' contents is at most
\* ceil(contextLength * 0.2).
C5_TurnSumWithinShare ==
    TruncReturned =>
        (chat_history = <<>> \/ SumSeq(TurnTokens(chat_history)) <= CeilShare)

C5_Witness ==
    /\ TruncReturned
    /\ pops > 0
    /\ chat_history # <<>>

\* C6: for every historyShare argument, the oldest turn is removed exactly
\* while the total history token count exceeds contextLength * historyShare.
C6_ThresholdFromArgument ==
    [][pc = "trunc" =>
          ((chat_history' # chat_history)
              <=> (total_hist_tokens * 10 > context_length * hist_dedic_arg))]_vars

\* C7: trunc_chat_history removes at most len(history) turns, never pops an
\* empty history, and in the worst case returns the empty history.
C7_TruncTerminates ==
    /\ result.kind # "IndexError"
    /\ pops <= Len(history0)
    /\ Len(chat_history) = Len(history0) - pops
    /\ (pc = "trunc" /\ chat_history = <<>>) => ~(total_hist_tokens > hist_dedic_space)

C7_Witness ==
    /\ TruncReturned
    /\ chat_history = <<>>
    /\ pops = MaxTurns

(***************************************************************************)
(* Properties of the retriever.                                            *)
(***************************************************************************)
\* the rankings of the first n queries, computed without any cache
RefIdxs(n) ==
    [j \in 1..n |-> get_retrieval_results(queries[j], retr_texts[j]).sorted_idxs]

\* the exemplars built from those rankings
RefOut(n, kk) == [j \in 1..n |-> Examples(j - 1, RefIdxs(n)[j], kk)]

Returned == rpc = "done" /\ rresult.kind # "none"

\* the running call found no artifact / found every query position cached
ColdRun == k > 0 /\ ~file0.exists

WarmRun == k > 0 /\ file0.exists /\ full_hit

\* C8: for k = 0 get_context returns one empty string per query, reads and
\* writes no artifact and never invokes the ranker.
C8_KZeroNoRetrieval ==
    (Returned /\ k = 0) =>
        /\ rresult = [kind |-> "strings", out |-> [j \in 1..nq |-> <<>>]]
        /\ reads = 0
        /\ writes = 0
        /\ rank_calls = 0
        /\ cache_file = file0

C8_Witness ==
    /\ Returned
    /\ k = 0
    /\ nq = MaxQueries
    /\ cache_file.exists

\* C9: a call that starts from no artifact and a later call served from the
\* cache it populated use the same rankings and return the same exemplars:
\* both equal the rankings and exemplars computed without any cache.
C9_CacheTransparent ==
    (Returned /\ (ColdRun \/ WarmRun)) =>
        /\ SubSeq(all_idxs, 1, nq) = RefIdxs(nq)
        /\ rresult.out = RefOut(nq, k)

C9_Witness ==
    /\ Returned
    /\ WarmRun
    /\ nq = MaxQueries
    /\ \E j \in 1..nq : Len(all_idxs[j]) > 1 /\ Len(rresult.out[j]) > 0

\* C10: a call that finds every query position cached never invokes the
\* ranker, never writes the artifact, leaves it unchanged, and returns the
\* same output as the call before it when that was such a call with the same
\* inputs.
C10_HitIsPure ==
    (rpc \in {"loop", "done"} /\ k > 0 /\ full_hit) =>
        /\ rank_calls = 0
        /\ writes = 0
        /\ cache_file = file0
        /\ (Returned /\ prev_hit.nq = nq /\ prev_hit.k = k)
               => rresult.out = prev_hit.out

C10_Witness ==
    /\ Returned
    /\ WarmRun
    /\ nq = MaxQueries
    /\ prev_hit.nq = nq
    /\ prev_hit.k = k
    /\ \E j \in 1..nq : Len(rresult.out[j]) > 0

(***************************************************************************)
(* Properties of the persisted ranking cache.                              *)
(***************************************************************************)
\* the artifact can be loaded (an absent artifact loads as [])
Parsable(f) == f.exists => JsonLoad(f.text).ok

\* the sequence of rankings the artifact holds
Persisted(f) == IF f.exists /\ JsonLoad(f.text).ok THEN JsonLoad(f.text).val ELSE <<>>

IsPrefixOf(a, b) == Len(a) <= Len(b) /\ SubSeq(b, 1, Len(a)) = a

\* C11: the persisted cache is append-only under a single writer: every step
\* of get_context other than a death inside save_file leaves the artifact
\* loadable and leaves the previously persisted sequence as a prefix of the
\* persisted sequence, so no persisted ranking is changed, reordered or
\* removed and the persisted length never decreases.
C11_AppendOnly ==
    [][(cache_file' # cache_file /\ rresult'.kind # "crash_in_flush") =>
           /\ Parsable(cache_file) => Parsable(cache_file')
           /\ IsPrefixOf(Persisted(cache_file), Persisted(cache_file'))]_vars

\* a flush has extended a non-empty artifact
C11_Witness ==
    /\ rpc \in {"loop", "done"}
    /\ writes > 0
    /\ Persisted(file0) # <<>>
    /\ Len(Persisted(cache_file)) > Len(Persisted(file0))
    /\ IsPrefixOf(Persisted(file0), Persisted(cache_file))

\* C12: get_context flushes at every position that is a multiple of the
\* flush period and after the last query: fewer than FlushEvery appended
\* rankings are ever unpersisted, and when the call returns the artifact
\* holds exactly the in-memory sequence, whatever the cache length it
\* started from.
C12_FlushPolicy ==
    /\ unsaved < FlushEvery
    /\ fpc = "loop" => n_all_idxs = (IF has_file THEN n_saved ELSE 0) + unsaved
    /\ fpc = "done" => /\ unsaved = 0
                       /\ n_all_idxs = (IF has_file THEN n_saved ELSE 0)

\* a call that started from a non-empty cache shorter than the query list has
\* flushed in between and at the end
C12_Witness ==
    /\ fpc = "done"
    /\ n_loaded > 0
    /\ n_loaded % FlushEvery # 0
    /\ n_queries > n_loaded + FlushEvery
    /\ n_queries % FlushEvery # 0
    /\ n_saved = n_queries
    /\ n_all_idxs = n_queries

\* the process has just died at a point of get_context outside save_file
DiedOutsideFlush ==
    /\ rpc # "crashed"
    /\ rpc' = "crashed"
    /\ rresult'.kind # "crash_in_flush"

\* C13: a death of the process outside a flush leaves the artifact untouched,
\* and once the cache is loaded the artifact is a loadable prefix of the
\* in-memory sequence, so only the unflushed tail is lost; the artifact is
\* unloadable only after a death in the middle of a flush.
C13_CrashKeepsPrefix ==
    /\ [][DiedOutsideFlush =>
             /\ cache_file' = cache_file
             /\ rpc = "loop" =>
                    /\ Parsable(cache_file')
                    /\ IsPrefixOf(Persisted(cache_file'), all_idxs)]_vars
    /\ [](~Parsable(cache_file) => flush_crash)

\* the process died with a ranking appended and not yet flushed
C13_Witness ==
    /\ rpc = "crashed"
    /\ rresult.kind = "crash"
    /\ ~flush_crash
    /\ Len(all_idxs) > Len(Persisted(cache_file))
    /\ \E j \in 1..Len(all_idxs) : Len(all_idxs[j]) > 1

\* the running call (k > 0) has got past its read of the artifact
PastLoad == k > 0 /\ rpc \in {"loop", "done", "raised"}

\* C14: a call that finds no artifact loads the empty sequence without error
\* and ranks every query position it gets to; a call that finds an artifact
\* that cannot be parsed fails on the read, before any ranking is done or any
\* exemplar is built, and leaves the artifact as it found it.
C14_LoadOutcomes ==
    /\ (PastLoad /\ ~file0.exists) =>
           /\ reads = 1
           /\ rresult.kind # "JSONDecodeError"
           /\ rpc \in {"loop", "done"} =>
                  /\ rank_calls = i
                  /\ Len(all_idxs) = i
           /\ rpc = "done" => rank_calls = nq
    /\ (PastLoad /\ file0.exists /\ ~Parsable(file0)) =>
           /\ rpc = "raised"
           /\ rresult = [kind |-> "JSONDecodeError", out |-> <<>>]
           /\ rank_calls = 0
           /\ all_idxs = <<>>
           /\ all_examples = <<>>
           /\ writes = 0
           /\ cache_file = file0

\* a call has failed on an artifact that a death inside save_file cut short
C14_Witness ==
    /\ PastLoad
    /\ rpc = "raised"
    /\ rresult.kind = "JSONDecodeError"
    /\ file0.exists
    /\ Len(file0.text) > 1
    /\ cache_file = file0

(***************************************************************************)
(* Properties of the consensus reranking.                                  *)
(***************************************************************************)
\* the row-sum of candidate a among the candidates outs
RowSum(outs, a) == SumSeq([b \in 1..Len(outs) |-> Similarity(outs[a], outs[b])])

MaxRowSum(outs, a) == \A b \in 1..Len(outs) : RowSum(outs, a) >= RowSum(outs, b)

\* the candidates of maximal row-sum all carry one text
OneBestText(outs) ==
    \A a, b \in 1..Len(outs) :
        (MaxRowSum(outs, a) /\ MaxRowSum(outs, b)) => outs[a] = outs[b]

BothReturned ==
    /\ scw_pc = "done"
    /\ scw_result.kind = "text"
    /\ scw_perm_result.kind = "text"

\* C15 as stated: the text returned for a reordering of the candidates is
\* the text returned for the candidates as given.
C15_SameTextUnderPermutation ==
    BothReturned => scw_perm_result.text = scw_result.text

\* C15, amended: both calls return a text of maximal row-sum, and the two
\* texts are equal whenever the candidates of maximal row-sum all carry one
\* text.
C15_SameTextUnlessTied ==
    BothReturned =>
        /\ \E a \in 1..Len(outputs) :
               /\ outputs[a] = scw_perm_result.text
               /\ MaxRowSum(outputs, a)
        /\ MaxRowSum(outputs, scw_result.index + 1)
        /\ OneBestText(outputs) => scw_perm_result.text = scw_result.text

\* the winner moved to another index and kept its text
C15_Witness ==
    /\ BothReturned
    /\ OneBestText(outputs)
    /\ \E a \in 1..Len(outputs) : ~MaxRowSum(outputs, a)
    /\ scw_perm_result.index # scw_result.index
    /\ scw_perm_result.text = scw_result.text

\* C16: semantic_consensus_weighting returns the candidate of maximal
\* row-sum in the pairwise similarity matrix, the one of smallest index when
\* several share the maximum.
C16_FirstMaxRowSum ==
    (scw_pc # "call" /\ scw_result.kind = "text") =>
        LET a == scw_result.index + 1
        IN  /\ a \in 1..Len(outputs)
            /\ scw_result.text = outputs[a]
            /\ MaxRowSum(outputs, a)
            /\ \A b \in 1..(a - 1) : RowSum(outputs, b) < RowSum(outputs, a)

\* two candidates share the maximal row-sum and a lesser one precedes them
C16_Witness ==
    /\ scw_pc # "call"
    /\ scw_result.kind = "text"
    /\ scw_result.index > 0
    /\ \E b \in (scw_result.index + 2)..Len(outputs) :
           /\ MaxRowSum(outputs, b)
           /\ outputs[b] = scw_result.text

(***************************************************************************)
(* Properties of the contrastive retrieval.                                *)
(***************************************************************************)
CEReturned == ce_pc = "done" /\ ce_result.kind = "lists"

\* the subjects chosen for query position r (from 1), as a set
Chosen(r) == {ce_result.ce_idxs[r][c] + 1 : c \in 1..Len(ce_result.ce_idxs[r])}

\* C17: with two or more queries and 1 <= num_ce <= len(queries), entry i of
\* the result holds num_ce distinct exemplar subjects, and none of the
\* subjects left out has a query more similar to query i than a chosen one.
C17_PerQueryMostSimilar ==
    (ce_pc = "done" /\ Len(queries) >= 2) =>
        /\ CEReturned
        /\ Len(ce_result.out) = Len(queries)
        /\ \A r \in 1..Len(queries) :
               /\ Len(ce_result.out[r]) = num_ce
               /\ Cardinality(Chosen(r)) = num_ce
               /\ \A s \in Chosen(r) :
                      \A t \in (1..Len(queries)) \ Chosen(r) :
                          Similarity(queries[r], queries[s])
                              >= Similarity(queries[r], queries[t])

\* C18: every chosen exemplar subject ce contributes exactly
\* min(ce_k, number of documents of ce) exemplars, the j-th built from the
\* text and the ground truth of its own j-th document, and the call never
\* fails on a ce_k larger than a subject's document count.
C18_ClampedOwnDocuments ==
    (ce_pc = "done" /\ Len(queries) >= 2) =>
        /\ CEReturned
        /\ \A r \in 1..Len(ce_result.out) :
               \A c \in 1..Len(ce_result.out[r]) :
                   LET ce == ce_result.ce_idxs[r][c] + 1
                       ex == ce_result.out[r][c]
                   IN  /\ Len(ex) = Min(ce_k, Len(retr_texts[ce]))
                       /\ \A j \in 1..Len(ex) :
                              /\ ex[j][3] = retr_texts[ce][j]
                              /\ has_gt_name => ex[j][7] = retr_gts[ce][j]

\* ce_k exceeds the document count of one chosen subject and is below that
\* of another
C18_Witness ==
    /\ CEReturned
    /\ \E r \in 1..Len(ce_result.out) :
           \E c, d \in 1..Len(ce_result.out[r]) :
               /\ Len(retr_texts[ce_result.ce_idxs[r][c] + 1]) < ce_k
               /\ Len(retr_texts[ce_result.ce_idxs[r][d] + 1]) > ce_k
               /\ Len(ce_result.out[r][d]) > 0

(***************************************************************************)
(* Properties of the ranking.                                              *)
(***************************************************************************)
\* idxs lists every one of 0..n-1 once
IsPermutation(idxs, n) ==
    /\ Len(idxs) = n
    /\ \A d \in 0..(n - 1) : \E j \in 1..n : idxs[j] = d

\* the scores read along idxs never go up
NonIncreasing(scores, idxs) ==
    \A j \in 1..(Len(idxs) - 1) : scores[idxs[j] + 1] >= scores[idxs[j + 1] + 1]

\* the rankings this call has computed itself: positions past the loaded cache
Ranked == (Len(Persisted(file0)) + 1)..Len(all_idxs)

InLoop == rpc \in {"loop", "done"} /\ k > 0

\* C19: every ranking computed for one query and a pool of n >= 1 documents
\* is a permutation of 0..n-1 along which the scores are non-increasing, and
\* comes with a list of n scores; for n = 1 that is a one-element list and
\* the ranking [0].
C19_RankIsSortedPermutation ==
    InLoop =>
        \A j \in Ranked :
            LET n == Len(retr_texts[j])
                r == neural_retrieval(queries[j], retr_texts[j])
            IN  n >= 1 =>
                    /\ all_idxs[j] = r.sorted_idxs
                    /\ IsPermutation(all_idxs[j], n)
                    /\ Len(r.similarities) = n
                    /\ \A d \in 1..n :
                           r.similarities[d] = Similarity(queries[j], retr_texts[j][d])
                    /\ NonIncreasing(r.similarities, all_idxs[j])
                    /\ n = 1 => all_idxs[j] = <<0>>

\* a pool whose second document scores higher than its first was ranked
C19_Witness ==
    /\ InLoop
    /\ \E j \in Ranked :
           /\ all_idxs[j] = <<1, 0>>
           /\ Similarity(queries[j], retr_texts[j][2])
                  > Similarity(queries[j], retr_texts[j][1])

\* C20: no ranking is ever held for a subject without documents, in memory
\* or in the artifact: ranking an empty pool raises instead.
C20_EmptyPoolRaises ==
    /\ InLoop => \A j \in Ranked : retr_texts[j] # <<>>
    /\ \A j \in 1..Min(Len(Persisted(cache_file)), Len(queries)) :
           retr_texts[j] # <<>>

(***************************************************************************)
(* Properties of the exemplar assembly.                                    *)
(***************************************************************************)
HasLine(example, label) == \E p \in 1..Len(example) : example[p] = label

\* the document behind the m-th exemplar of query position j (both from 1)
DocOf(j, m) == all_idxs[j][m] + 1

\* C21: for k > 0 get_context returns for every query min(k, number of its
\* documents) exemplars, the m-th built from the document the m-th entry of
\* the query's ranking names, with the ground-truth line exactly when the
\* text of that document differs from its ground truth.
C21_TopKExemplars ==
    (Returned /\ k > 0) =>
        /\ Len(rresult.out) = nq
        /\ \A j \in 1..nq :
               /\ Len(rresult.out[j]) = Min(k, Len(retr_texts[j]))
               /\ \A m \in 1..Len(rresult.out[j]) :
                      LET ex == rresult.out[j][m]
                          text == retr_texts[j][DocOf(j, m)]
                          gt == retr_gts[j][DocOf(j, m)]
                      IN  /\ ex[3] = text
                          /\ HasLine(ex, "Gt:") <=> (text # gt)
                          /\ HasLine(ex, "Gt:") => ex[7] = gt

\* k is below the number of documents of a query, the ranking puts another
\* document than the first in front, and its exemplar shows the ground truth
C21_Witness ==
    /\ Returned
    /\ k > 0
    /\ \E j \in 1..nq :
           /\ Len(rresult.out[j]) = k
           /\ Len(retr_texts[j]) > k
           /\ DocOf(j, 1) # 1
           /\ HasLine(rresult.out[j][1], "Gt:")

\* C22: when the ground truth is a (text, rating) pair, every exemplar
\* get_context builds ends with a rating line that carries the rating of its
\* own document, whether or not the ground-truth line is shown.
C22_RatingLineAlways ==
    (Returned /\ k > 0 /\ gt_is_tuple) =>
        \A j \in 1..nq : \A m \in 1..Len(rresult.out[j]) :
            LET ex == rresult.out[j][m]
            IN  /\ Len(ex) >= 3
                /\ ex[Len(ex) - 2] = "Rating:"
                /\ ex[Len(ex)] = DocRatings(j - 1)[DocOf(j, m)]

\* the ranking of query position j (from 1), computed without any cache
RankOf(j) == get_retrieval_results(queries[j], retr_texts[j]).sorted_idxs

\* C23: entry j of the in-memory sequence and of the persisted sequence is
\* the ranking of query position j, and a new ranking for position i is
\* appended only when the sequence has exactly i entries.
C23_PositionalAlignment ==
    /\ [](\A j \in 1..Min(Len(all_idxs), Len(queries)) :
             all_idxs[j] = RankOf(j))
    /\ [](LET persisted == Persisted(cache_file)
          IN  \A j \in 1..Min(Len(persisted), Len(queries)) :
                  persisted[j] = RankOf(j))
    /\ [][(rpc = "loop" /\ Len(all_idxs') = Len(all_idxs) + 1) =>
             /\ Len(all_idxs) = i
             /\ all_idxs' = Append(all_idxs, RankOf(i + 1))]_vars

\* a call that loaded a shorter cache has appended the ranking of its last
\* position behind the loaded ones
C23_Witness ==
    /\ rpc \in {"loop", "done"}
    /\ k > 0
    /\ Len(Persisted(file0)) > 0
    /\ Len(all_idxs) > Len(Persisted(file0))
    /\ Len(all_idxs) = MaxQueries
    /\ all_idxs[1] # all_idxs[MaxQueries]

(***************************************************************************)
(* Properties of the history truncation.                                   *)
(***************************************************************************)
\* the history without its n oldest turns
Suffix(turns, n) == SubSeq(turns, n + 1, Len(turns))

\* contextLength * 0.2, the budget every call applies (line 52)
HistoryBudgetTenths == context_length * HistShareTenths

WithinHistoryBudget(turns) == SumSeq(TurnTokens(turns)) * 10 <= HistoryBudgetTenths

\* C24: trunc_chat_history returns the original history without some of its
\* oldest turns, the remaining turns unchanged and in order, and it is the
\* longest such suffix whose per-turn token counts sum to at most the
\* history budget.
C24_LongestFittingSuffix ==
    TruncReturned =>
        /\ pops \in 0..Len(history0)
        /\ chat_history = Suffix(history0, pops)
        /\ WithinHistoryBudget(chat_history)
        /\ \A n \in 0..(pops - 1) : ~WithinHistoryBudget(Suffix(history0, n))

\* the oldest turn was removed and the newer one, of other content, was kept
C24_Witness ==
    /\ TruncReturned
    /\ Len(history0) = MaxTurns
    /\ pops = 1
    /\ chat_history # <<>>
    /\ chat_history[1].content # history0[1].content
    /\ WithinHistoryBudget(chat_history)

(***************************************************************************)
(* Properties of a cache hit under changed query strings.                  *)
(***************************************************************************)
\* the exemplars of the first n positions, built from the rankings the
\* artifact held when the call started
OutFromCache(n, kk) ==
    [j \in 1..n |-> Examples(j - 1, Persisted(file0)[j], kk)]

====
